---- MODULE Spec2Model ----
(***************************************************************************)
(* SimSRE: a single SRE team as a tick-driven state machine.               *)
(* Model of src/simsre.py: SRE_team.run and the methods it calls, plus the *)
(* module-level driver (env.run(until=SIM_DURATION) and the final census). *)
(***************************************************************************)
EXTENDS Integers, Sequences, FiniteSets, TLC

\* ---------------------------------------------------------------- bounds
\* Longest horizon (value given to SIM_DURATION) explored, with the
\* onboarding limit configured as 0.
MaxTicks == 6
\* Longest horizon explored with a positive onboarding limit.
MaxOnboardingTicks == 4
\* Longest queue handed to process_work on its own (ProcessSpec).
MaxQueue == 6
\* Highest operational_work and longest queue handed to assign_work on its
\* own (GrowthSpec).
MaxBaseline == 21
MaxGrowthQueue == 2

\* ------------------------------------------------------- program constants
OPERATIONAL == 1
IN_TEAM_PROJECT == 2
CROSS_TEAM_PROJECT == 3
ONBOARDING == 4
SRE_WORK_TYPES == {OPERATIONAL, IN_TEAM_PROJECT, CROSS_TEAM_PROJECT, ONBOARDING}

SRE_TEAM_CAPACITY == 10
SRE_TEAM_ONBOARDINGS_LIMIT == 10
SRE_BASELINE_OPERATIONAL == 1
SRE_TEAM_MAX_OPERATIONAL == 20
\* QUARTERLY_GROWTH = 1.15, kept as a ratio of integers.
QUARTERLY_GROWTH_NUM == 115
QUARTERLY_GROWTH_DEN == 100
\* HARD_CAP_OPEX is unused by the code; the loop tests op_counter against
\* 0.5 * SRE_TEAM_CAPACITY, i.e. 2 * op_counter against SRE_TEAM_CAPACITY.

SRE_WORK_DISTRIBUTION ==
  << OPERATIONAL, OPERATIONAL, OPERATIONAL, OPERATIONAL,
     IN_TEAM_PROJECT, IN_TEAM_PROJECT, IN_TEAM_PROJECT, IN_TEAM_PROJECT,
     CROSS_TEAM_PROJECT, CROSS_TEAM_PROJECT >>

\* Values of random.randint(1,10).
RandInt == 1..10
\* The outcomes of the three tests made on a draw.
CrossTeamDraws == {d > 9 : d \in RandInt}
OnboardingDraws == {d > 8 : d \in RandInt}
CarryoverDraws == {d > 5 : d \in RandInt}

\* Configured onboarding limits explored: 0 and 1 are reached within the
\* horizon, the shipped one is SRE_TEAM_ONBOARDINGS_LIMIT.
OnboardingLimits == {0, 1, SRE_TEAM_ONBOARDINGS_LIMIT}

\* Configurations (SRE_TEAM_ONBOARDINGS_LIMIT, SIM_DURATION) explored.
Configurations ==
  { c \in [limit : OnboardingLimits, horizon : 1..MaxTicks] :
      c.limit > 0 => c.horizon <= MaxOnboardingTicks }

VARIABLES
  work_items,              \* self.work_items (deque), head first
  onboarding_in_progress,  \* self.onboarding_in_progress
  onboardings,             \* self.onboardings
  operational_work,        \* self.operational_work
  ticks,                   \* self.ticks
  assigned_history_dict,   \* self.assigned_history_dict
  performed_history_dict,  \* self.performed_history_dict
  tracking,                \* self.tracking
  op_counter,              \* local of process_work
  capacity,                \* local of process_work
  pc,                      \* position of the run() generator
  onboardings_limit,       \* configured SRE_TEAM_ONBOARDINGS_LIMIT
  horizon,                 \* configured SIM_DURATION
  fired,                   \* what the draws of the current tick decided
  steady                   \* number of passes through the else branch of run()

vars == << work_items, onboarding_in_progress, onboardings, operational_work,
           ticks, assigned_history_dict, performed_history_dict, tracking,
           op_counter, capacity, pc, onboardings_limit, horizon, fired, steady >>

\* ---------------------------------------------------------------- helpers
RECURSIVE CountOf(_, _)
\* collections.Counter(seq)[k]
CountOf(seq, k) ==
  IF seq = << >> THEN 0
  ELSE (IF Head(seq) = k THEN 1 ELSE 0) + CountOf(Tail(seq), k)

\* Index of the first occurrence of k in seq, 0 when there is none.
FirstIndex(seq, k) ==
  IF \E i \in 1..Len(seq) : seq[i] = k
  THEN CHOOSE i \in 1..Len(seq) :
         seq[i] = k /\ \A j \in 1..(i - 1) : seq[j] # k
  ELSE 0

\* Variant: the latest occurrence is removed instead of the earliest.
clear_last_of_type(seq, supplied_type) ==
  IF \E i \in 1..Len(seq) : seq[i] = supplied_type
  THEN LET i == CHOOSE i \in 1..Len(seq) :
                  seq[i] = supplied_type
                  /\ \A j \in (i + 1)..Len(seq) : seq[j] # supplied_type
       IN SubSeq(seq, 1, i - 1) \o SubSeq(seq, i + 1, Len(seq))
  ELSE seq

\* deque.remove(x) with the ValueError swallowed.
clear_first_of_type(seq, supplied_type) ==
  LET i == FirstIndex(seq, supplied_type)
  IN IF i = 0 THEN seq
     ELSE SubSeq(seq, 1, i - 1) \o SubSeq(seq, i + 1, Len(seq))

\* self.work_items.append(work_type)
add_work(seq, work_type) == Append(seq, work_type)

\* n copies of work_type
Repeat(work_type, n) == [i \in 1..n |-> work_type]

\* Python's round() on b * 1.15: nearest integer, ties to even.
RoundGrowth(b) ==
  LET n == b * QUARTERLY_GROWTH_NUM
      q == n \div QUARTERLY_GROWTH_DEN
      r == n % QUARTERLY_GROWTH_DEN
  IN IF 2 * r > QUARTERLY_GROWTH_DEN THEN q + 1
     ELSE IF 2 * r < QUARTERLY_GROWTH_DEN THEN q
     ELSE IF q % 2 = 0 THEN q ELSE q + 1

\* new_operational_work of add_scaled_operational
NewOperationalWork(op, onb) == RoundGrowth(op) + onb

\* Variant: the onboardings are left out of the number appended.
ScaledOperationalCountNoOnboardings(op, onb) ==
  LET delta == RoundGrowth(op) - op
  IN IF op < SRE_TEAM_MAX_OPERATIONAL /\ delta > 0 THEN delta ELSE 0

\* Number of OPERATIONAL tokens add_scaled_operational appends:
\* range(delta) is empty for delta <= 0.
ScaledOperationalCount(op, onb) ==
  LET delta == NewOperationalWork(op, onb) - op
  IN IF op < SRE_TEAM_MAX_OPERATIONAL /\ delta > 0 THEN delta ELSE 0

\* Variant: the method stores delta as the new level.
OperationalWorkSetToDelta(op, onb) == NewOperationalWork(op, onb) - op

\* self.operational_work once add_scaled_operational returns: the method
\* never assigns it.
OperationalWorkAfterScaling(op, onb) == op

\* Queue after add_scaled_operational.
add_scaled_operational(seq, op, onb) ==
  seq \o Repeat(OPERATIONAL, ScaledOperationalCount(op, onb))

\* Variant: the escalation removes two IN_TEAM_PROJECT items.
CrossTeamEscalationTwoInTeam(seq) ==
  clear_first_of_type(
    clear_first_of_type(
      clear_first_of_type(
        clear_first_of_type(add_work(seq, CROSS_TEAM_PROJECT), OPERATIONAL),
        OPERATIONAL),
      IN_TEAM_PROJECT),
    IN_TEAM_PROJECT)

\* Queue after the cross-team branch of assign_work.
CrossTeamEscalation(seq) ==
  clear_first_of_type(
    clear_first_of_type(
      clear_first_of_type(add_work(seq, CROSS_TEAM_PROJECT), OPERATIONAL),
      OPERATIONAL),
    IN_TEAM_PROJECT)

\* Variant: the guard forgets the lifetime limit.
OnboardingAdmittedNoLimit(draw, in_progress, onb, limit) ==
  draw /\ in_progress = FALSE

\* Variant: the guard forgets the onboarding in progress.
OnboardingAdmittedNoGuard(draw, in_progress, onb, limit) ==
  draw /\ onb < limit

\* Variant: the lifetime limit is compared with <=.
OnboardingAdmittedUpToLimit(draw, in_progress, onb, limit) ==
  draw /\ in_progress = FALSE /\ onb <= limit

\* The guard of the onboarding branch of assign_work.
OnboardingAdmitted(draw, in_progress, onb, limit) ==
  draw /\ in_progress = FALSE /\ onb < limit

\* Variant: a work type that is absent gets no entry.
CensusAppendNoFill(hist, counts) ==
  [k \in SRE_WORK_TYPES |->
     IF counts[k] > 0 THEN Append(hist[k], counts[k]) ELSE hist[k]]

\* One census entry appended per work type: the count, 0 when absent.
CensusAppend(hist, counts) ==
  [k \in SRE_WORK_TYPES |-> Append(hist[k], counts[k])]

\* Variant: the census counts the queue without its head.
QueueCountsOfTail(seq) ==
  [k \in SRE_WORK_TYPES |-> IF seq = << >> THEN 0 ELSE CountOf(Tail(seq), k)]

\* collections.Counter(self.work_items), read per work type.
QueueCounts(seq) == [k \in SRE_WORK_TYPES |-> CountOf(seq, k)]

NoTracking == [k \in SRE_WORK_TYPES |-> 0]
\* What the team printed about the current tick's decisions: the escalation,
\* the onboarding admitted, the carryovers, the OPERATIONAL items passed over.
NothingFired ==
  [cross |-> FALSE, onboard |-> FALSE, carry |-> 0, dropped |-> 0]

\* ------------------------------------------------------------------- Init
Init ==
  /\ work_items = << >>
  /\ onboarding_in_progress = FALSE
  /\ onboardings = 0
  /\ operational_work = SRE_BASELINE_OPERATIONAL
  /\ ticks = 0
  /\ assigned_history_dict = [k \in SRE_WORK_TYPES |-> << >>]
  /\ performed_history_dict = [k \in SRE_WORK_TYPES |-> << >>]
  /\ tracking = NoTracking
  /\ op_counter = 0
  /\ capacity = 0
  /\ pc = "tick"
  /\ \E c \in Configurations :
       onboardings_limit = c.limit /\ horizon = c.horizon
  /\ fired = NothingFired
  /\ steady = 0

\* ---------------------------------------------------------------- actions
\* Variant: the refilling tick takes a census too.
BootstrapWithCensus ==
  /\ pc = "tick"
  /\ ticks < horizon
  /\ Len(work_items) = 0
  /\ ticks' = ticks + 1
  /\ work_items' = SRE_WORK_DISTRIBUTION
  /\ assigned_history_dict' =
       CensusAppend(assigned_history_dict, QueueCounts(work_items))
  /\ performed_history_dict' = CensusAppend(performed_history_dict, tracking)
  /\ UNCHANGED << onboarding_in_progress, onboardings, operational_work,
                  tracking, op_counter, capacity, pc, onboardings_limit,
                  horizon, fired, steady >>

\* Variant: the engine refuses to start under a non-positive limit.
BootstrapValidated ==
  /\ onboardings_limit > 0
  /\ pc = "tick"
  /\ ticks < horizon
  /\ Len(work_items) = 0
  /\ ticks' = ticks + 1
  /\ work_items' = SRE_WORK_DISTRIBUTION
  /\ UNCHANGED << onboarding_in_progress, onboardings, operational_work,
                  assigned_history_dict, performed_history_dict, tracking,
                  op_counter, capacity, pc, onboardings_limit, horizon,
                  fired, steady >>

\* run(): a tick that finds the queue empty refills it and yields.
Bootstrap ==
  /\ pc = "tick"
  /\ ticks < horizon
  /\ Len(work_items) = 0
  /\ ticks' = ticks + 1
  /\ work_items' = SRE_WORK_DISTRIBUTION
  /\ UNCHANGED << onboarding_in_progress, onboardings, operational_work,
                  assigned_history_dict, performed_history_dict, tracking,
                  op_counter, capacity, pc, onboardings_limit, horizon,
                  fired, steady >>

\* run(): a tick that finds work first takes the census.
Census ==
  /\ pc = "tick"
  /\ ticks < horizon
  /\ Len(work_items) # 0
  /\ ticks' = ticks + 1
  /\ assigned_history_dict' =
       CensusAppend(assigned_history_dict, QueueCounts(work_items))
  /\ performed_history_dict' = CensusAppend(performed_history_dict, tracking)
  /\ steady' = steady + 1
  /\ fired' = NothingFired
  /\ pc' = "assign"
  /\ UNCHANGED << work_items, onboarding_in_progress, onboardings,
                  operational_work, tracking, op_counter, capacity,
                  onboardings_limit, horizon >>

\* assign_work(), whole: cross-team draw, onboarding draw, scaled operational.
AssignWork ==
  /\ pc = "assign"
  /\ \E cross \in CrossTeamDraws, d_onb \in OnboardingDraws :
       LET q1    == IF cross THEN CrossTeamEscalation(work_items)
                    ELSE work_items
           admit == OnboardingAdmitted(d_onb, onboarding_in_progress,
                                       onboardings, onboardings_limit)
           onb1  == IF admit THEN onboardings + 1 ELSE onboardings
           q2    == IF admit THEN add_work(q1, ONBOARDING) ELSE q1
       IN /\ onboarding_in_progress' =
               (IF admit THEN TRUE ELSE onboarding_in_progress)
          /\ onboardings' = onb1
          /\ work_items' = add_scaled_operational(q2, operational_work, onb1)
          /\ operational_work' =
               OperationalWorkAfterScaling(operational_work, onb1)
          /\ fired' = [fired EXCEPT !.cross = cross, !.onboard = admit]
  /\ pc' = "process"
  /\ UNCHANGED << ticks, assigned_history_dict, performed_history_dict,
                  tracking, op_counter, capacity, onboardings_limit, horizon,
                  steady >>

\* process_work(): the prologue before the loop.
ProcessStart ==
  /\ pc = "process"
  /\ op_counter' = 0
  /\ capacity' = 0
  /\ tracking' = NoTracking
  /\ pc' = "loop"
  /\ UNCHANGED << work_items, onboarding_in_progress, onboardings,
                  operational_work, ticks, assigned_history_dict,
                  performed_history_dict, onboardings_limit, horizon, fired,
                  steady >>

\* Variant: the threshold test is off by one.
OperationalUpToThreshold(count) == 2 * count <= SRE_TEAM_CAPACITY

\* The test op_counter < 0.5 * SRE_TEAM_CAPACITY, in integers.
OperationalUnderThreshold(count) == 2 * count < SRE_TEAM_CAPACITY

\* Variant: an IN_TEAM_PROJECT item is consumed instead of requeued.
InTeamProjectConsumed ==
  /\ work_items' = Tail(work_items)
  /\ tracking' = [tracking EXCEPT ![IN_TEAM_PROJECT] = @ + 1]
  /\ capacity' = capacity + 1
  /\ UNCHANGED << op_counter, onboarding_in_progress, fired >>

\* Variant: an in-team project is requeued without being counted at all.
InTeamProjectFree ==
  /\ work_items' = add_work(Tail(work_items), IN_TEAM_PROJECT)
  /\ UNCHANGED << tracking, capacity, op_counter, onboarding_in_progress,
                  fired >>

\* The effect of one loop iteration on a popped work item.
InTeamProject ==
  /\ work_items' = add_work(Tail(work_items), IN_TEAM_PROJECT)
  /\ tracking' = [tracking EXCEPT ![IN_TEAM_PROJECT] = @ + 1]
  /\ capacity' = capacity + 1
  /\ UNCHANGED << op_counter, onboarding_in_progress, fired >>

OperationalUnderCap ==
  /\ work_items' = Tail(work_items)
  /\ op_counter' = op_counter + 1
  /\ capacity' = capacity + 1
  /\ tracking' = [tracking EXCEPT ![OPERATIONAL] = @ + 1]
  /\ UNCHANGED << onboarding_in_progress, fired >>

\* Variant: the over-threshold item goes back to the tail of the queue.
OperationalOverCapRequeued ==
  /\ work_items' = add_work(Tail(work_items), OPERATIONAL)
  /\ UNCHANGED << op_counter, capacity, tracking, onboarding_in_progress,
                  fired >>

OperationalOverCap ==
  /\ work_items' = Tail(work_items)
  /\ fired' = [fired EXCEPT !.dropped = @ + 1]
  /\ UNCHANGED << op_counter, capacity, tracking, onboarding_in_progress >>

CrossTeamProject ==
  /\ \E carry \in CarryoverDraws :
       /\ work_items' = (IF carry
                         THEN add_work(Tail(work_items), CROSS_TEAM_PROJECT)
                         ELSE Tail(work_items))
       /\ fired' = [fired EXCEPT !.carry = @ + (IF carry THEN 1 ELSE 0)]
  /\ capacity' = capacity + 1
  /\ tracking' = [tracking EXCEPT ![CROSS_TEAM_PROJECT] = @ + 1]
  /\ UNCHANGED << op_counter, onboarding_in_progress >>

\* Variant: an onboarding is tallied under its own work type.
OnboardingTalliedAsOnboarding ==
  /\ work_items' = add_work(add_work(Tail(work_items), IN_TEAM_PROJECT),
                            OPERATIONAL)
  /\ onboarding_in_progress' = FALSE
  /\ capacity' = capacity + 2
  /\ tracking' = [tracking EXCEPT ![ONBOARDING] = @ + 1]
  /\ UNCHANGED << op_counter, fired >>

\* Variant: an onboarding spawns only operational work.
OnboardingSpawnsOperationalOnly ==
  /\ work_items' = add_work(Tail(work_items), OPERATIONAL)
  /\ onboarding_in_progress' = FALSE
  /\ capacity' = capacity + 2
  /\ tracking' = [tracking EXCEPT ![CROSS_TEAM_PROJECT] = @ + 1]
  /\ UNCHANGED << op_counter, fired >>

Onboarding ==
  /\ work_items' = add_work(add_work(Tail(work_items), IN_TEAM_PROJECT),
                            OPERATIONAL)
  /\ onboarding_in_progress' = FALSE
  /\ capacity' = capacity + 2
  /\ tracking' = [tracking EXCEPT ![CROSS_TEAM_PROJECT] = @ + 1]
  /\ UNCHANGED << op_counter, fired >>

\* process_work(): one iteration of the while loop that pops an item.
ProcessItem ==
  /\ pc = "loop"
  /\ capacity < SRE_TEAM_CAPACITY
  /\ Len(work_items) > 0
  /\ LET work_item == Head(work_items)
     IN \/ work_item = IN_TEAM_PROJECT /\ InTeamProject
        \/ /\ work_item = OPERATIONAL
           /\ OperationalUnderThreshold(op_counter)
           /\ OperationalUnderCap
        \/ /\ work_item = OPERATIONAL
           /\ ~OperationalUnderThreshold(op_counter)
           /\ OperationalOverCap
        \/ work_item = CROSS_TEAM_PROJECT /\ CrossTeamProject
        \/ work_item = ONBOARDING /\ Onboarding
  /\ UNCHANGED << onboardings, operational_work, ticks, assigned_history_dict,
                  performed_history_dict, pc, onboardings_limit, horizon,
                  steady >>

\* process_work(): the while condition fails; run() yields.
CapacityReached ==
  /\ pc = "loop"
  /\ capacity >= SRE_TEAM_CAPACITY
  /\ pc' = "tick"
  /\ UNCHANGED << work_items, onboarding_in_progress, onboardings,
                  operational_work, ticks, assigned_history_dict,
                  performed_history_dict, tracking, op_counter, capacity,
                  onboardings_limit, horizon, fired, steady >>

\* process_work(): popleft raises IndexError, the loop breaks; run() yields.
QueueExhausted ==
  /\ pc = "loop"
  /\ capacity < SRE_TEAM_CAPACITY
  /\ Len(work_items) = 0
  /\ pc' = "tick"
  /\ UNCHANGED << work_items, onboarding_in_progress, onboardings,
                  operational_work, ticks, assigned_history_dict,
                  performed_history_dict, tracking, op_counter, capacity,
                  onboardings_limit, horizon, fired, steady >>

\* env.run(until=SIM_DURATION) returns; the module takes a last census.
FinalCensus ==
  /\ pc = "tick"
  /\ ticks = horizon
  /\ assigned_history_dict' =
       CensusAppend(assigned_history_dict, QueueCounts(work_items))
  /\ performed_history_dict' = CensusAppend(performed_history_dict, tracking)
  /\ pc' = "done"
  /\ UNCHANGED << work_items, onboarding_in_progress, onboardings,
                  operational_work, ticks, tracking, op_counter, capacity,
                  onboardings_limit, horizon, fired, steady >>

Next ==
  \/ Bootstrap
  \/ Census
  \/ AssignWork
  \/ ProcessStart
  \/ ProcessItem
  \/ CapacityReached
  \/ QueueExhausted
  \/ FinalCensus

Spec == Init /\ [][Next]_vars

\* ------------------------------------------- process_work on its own
\* Queues of at most MaxQueue work items holding at most one ONBOARDING.
Queues ==
  { q \in UNION { [1..n -> SRE_WORK_TYPES] : n \in 0..MaxQueue } :
      CountOf(q, ONBOARDING) <= 1 }

\* A team about to call process_work() on any such queue, in its second
\* tick; the guard is set exactly when the queue holds the ONBOARDING.
InitProcess ==
  /\ work_items \in Queues
  /\ onboarding_in_progress = (CountOf(work_items, ONBOARDING) = 1)
  /\ onboardings = CountOf(work_items, ONBOARDING)
  /\ operational_work = SRE_BASELINE_OPERATIONAL
  /\ ticks = 2
  /\ assigned_history_dict =
       [k \in SRE_WORK_TYPES |-> << CountOf(SRE_WORK_DISTRIBUTION, k) >>]
  /\ performed_history_dict = [k \in SRE_WORK_TYPES |-> << 0 >>]
  /\ tracking = NoTracking
  /\ op_counter = 0
  /\ capacity = 0
  /\ pc = "process"
  /\ onboardings_limit = SRE_TEAM_ONBOARDINGS_LIMIT
  /\ horizon = 2
  /\ fired = NothingFired
  /\ steady = 1

NextProcess ==
  \/ ProcessStart
  \/ ProcessItem
  \/ CapacityReached
  \/ QueueExhausted

ProcessSpec == InitProcess /\ [][NextProcess]_vars

\* process_work() is sequential code: its next statement always executes.
ProcessFairSpec == InitProcess /\ [][NextProcess]_vars /\ WF_vars(NextProcess)

\* -------------------------------------------- assign_work on its own
\* A team about to call assign_work(), the census of its second tick taken,
\* for any operational_work up to MaxBaseline, any number of onboardings
\* done and any short queue.
InitGrowth ==
  /\ work_items \in { q \in Queues : Len(q) <= MaxGrowthQueue }
  /\ onboarding_in_progress = (CountOf(work_items, ONBOARDING) = 1)
  /\ onboardings \in
       CountOf(work_items, ONBOARDING)..SRE_TEAM_ONBOARDINGS_LIMIT
  /\ operational_work \in 0..MaxBaseline
  /\ ticks = 2
  /\ assigned_history_dict =
       [k \in SRE_WORK_TYPES |-> << CountOf(work_items, k) >>]
  /\ performed_history_dict = [k \in SRE_WORK_TYPES |-> << 0 >>]
  /\ tracking = NoTracking
  /\ op_counter = 0
  /\ capacity = 0
  /\ pc = "assign"
  /\ onboardings_limit = SRE_TEAM_ONBOARDINGS_LIMIT
  /\ horizon = 2
  /\ fired = NothingFired
  /\ steady = 1

NextGrowth == AssignWork

GrowthSpec == InitGrowth /\ [][NextGrowth]_vars

\* ================================================================ claims
Last(seq) == seq[Len(seq)]

\* C1: in every reachable state the onboarding counter is at most the
\* configured onboarding limit, and no step ever decreases it.
C1_OnboardingsBounded ==
  /\ [](onboardings <= onboardings_limit)
  /\ [][onboardings' >= onboardings]_vars

\* C1 witness: admission has run with the limit (at least 1) reached and no
\* onboarding in progress, so that the limit alone refuses any draw.
C1_LimitRefuses ==
  /\ pc = "process"
  /\ onboardings_limit >= 1
  /\ onboardings = onboardings_limit
  /\ onboarding_in_progress = FALSE
  /\ ~fired.onboard

\* C2: the queue holds at most one ONBOARDING token, and
\* onboarding_in_progress is true exactly when it holds one; this holds at
\* every tick boundary and in every state between two steps of a tick.
C2_OneOnboardingInQueue ==
  /\ CountOf(work_items, ONBOARDING) <= 1
  /\ onboarding_in_progress <=> (CountOf(work_items, ONBOARDING) = 1)

\* C2 witness: an admitted onboarding survives processing and is carried,
\* guard set, over a tick boundary.
C2_OnboardingCarriedOver ==
  /\ pc = "tick"
  /\ ticks >= 2
  /\ onboarding_in_progress
  /\ CountOf(work_items, ONBOARDING) = 1

\* C3: whatever queue process_work is given, the number of OPERATIONAL
\* tokens it tallies as performed is at most half of SRE_TEAM_CAPACITY.
C3_OperationalHalfCapacity ==
  2 * tracking[OPERATIONAL] <= SRE_TEAM_CAPACITY

\* C3 witness: processing has ended with exactly half the capacity tallied
\* as OPERATIONAL and a further OPERATIONAL token popped and passed over.
C3_CapReached ==
  /\ pc = "tick"
  /\ 2 * tracking[OPERATIONAL] = SRE_TEAM_CAPACITY
  /\ fired.dropped >= 1

\* C4: until the run ends, the assigned and the performed series of all four
\* work types have the same length, the number of steady ticks begun: a
\* steady tick appends one entry to each, a bootstrap tick none.
C4_SeriesLengths ==
  pc # "done" =>
    \A k \in SRE_WORK_TYPES :
      /\ Len(assigned_history_dict[k]) = steady
      /\ Len(performed_history_dict[k]) = steady

\* C4 witness: after a bootstrap tick and at least two steady ticks, a work
\* type absent from the queue has its 0 entry in the assigned series.
C4_ZeroFilled ==
  /\ pc = "tick"
  /\ steady >= 2
  /\ ticks = steady + 1
  /\ Len(assigned_history_dict[ONBOARDING]) = steady
  /\ Last(assigned_history_dict[ONBOARDING]) = 0
  /\ Last(assigned_history_dict[IN_TEAM_PROJECT]) > 0
\* The entry a census appended last, per work type.
LastAssigned == [k \in SRE_WORK_TYPES |-> Last(assigned_history_dict[k])]
LastPerformed == [k \in SRE_WORK_TYPES |-> Last(performed_history_dict[k])]

\* C5 as claimed: when the processing of a steady tick ends, the entry that
\* tick appended records the queue counts as they are after that processing
\* and the tally that processing produced.
C5_SnapshotAfterProcessing ==
  [][(pc = "loop" /\ pc' = "tick") =>
       /\ LastAssigned' = QueueCounts(work_items')
       /\ LastPerformed' = tracking']_vars

\* C5 amended: a steady tick takes the census first, then admits, then
\* processes. The entry of the tick is appended by the tick's first step,
\* from the queue as the tick found it and the tally the latest processing
\* left (all 0 when none has run); admission and processing append nothing.
C5_CensusBeforeAdmission ==
  [][/\ (pc = "tick" /\ ticks' = ticks + 1 /\ work_items # << >>) =>
          /\ pc' = "assign"
          /\ work_items' = work_items /\ tracking' = tracking
          /\ \A k \in SRE_WORK_TYPES :
               /\ assigned_history_dict'[k] =
                    Append(assigned_history_dict[k], CountOf(work_items, k))
               /\ performed_history_dict'[k] =
                    Append(performed_history_dict[k], tracking[k])
     /\ (pc = "assign") => pc' = "process"
     /\ (pc = "process") => pc' = "loop"
     /\ (pc \in {"assign", "process", "loop"}) =>
          /\ assigned_history_dict' = assigned_history_dict
          /\ performed_history_dict' = performed_history_dict]_vars

\* C5 witness: the third tick has ended; its entry shows the queue the tick
\* started with and the second tick's tally, and both differ from the queue
\* and the tally that the third tick's processing has left.
C5_SnapshotIsStale ==
  /\ pc = "tick"
  /\ ticks = 3
  /\ steady = 2
  /\ LastAssigned # QueueCounts(work_items)
  /\ LastPerformed # tracking
  /\ LastPerformed[OPERATIONAL] = 4

\* C6 as claimed: the queue is non-empty at the start of every tick after
\* the first.
C6_NeverEmptyAgain ==
  (pc = "tick" /\ ticks >= 1 /\ ticks < horizon) => work_items # << >>

\* C6 amended: the queue is non-empty at the start of ticks 2 to 5, so the
\* refill fires on the first tick and on none of those; a later tick can
\* find the queue empty and refills it.
C6_NoRefillBeforeSixthTick ==
  (pc = "tick" /\ ticks >= 1 /\ ticks <= 4) => work_items # << >>

\* C6 witness: the sixth tick found the queue empty and refilled it, after
\* one bootstrap tick and four steady ticks.
C6_SecondRefill ==
  /\ pc = "tick"
  /\ ticks = 6
  /\ steady = 4
  /\ work_items = SRE_WORK_DISTRIBUTION

\* C7: operational_work never exceeds SRE_TEAM_MAX_OPERATIONAL and no step
\* ever decreases it.
C7_OperationalWorkBounded ==
  /\ [](operational_work <= SRE_TEAM_MAX_OPERATIONAL)
  /\ [][operational_work' >= operational_work]_vars

\* C7 witness: admission has run with onboardings done, so that
\* add_scaled_operational computed a higher level and appended tokens.
C7_AfterGrowth ==
  /\ pc = "process"
  /\ onboardings >= 2
  /\ NewOperationalWork(operational_work, onboardings) > operational_work
  /\ operational_work <= SRE_TEAM_MAX_OPERATIONAL

\* C8: every admission ends with operational_work set to the level the
\* growth computation gave, round(operational_work * 1.15) + onboardings.
C8_BaselineUpdated ==
  [][(pc = "assign") =>
       operational_work' = NewOperationalWork(operational_work, onboardings')]_vars

\* C9: every admission appends to the queue tail, after the escalation and
\* the onboarding, exactly round(operational_work * 1.15) + onboardings -
\* operational_work OPERATIONAL tokens when operational_work is below
\* SRE_TEAM_MAX_OPERATIONAL (none when that difference is not positive), and
\* none when operational_work has reached SRE_TEAM_MAX_OPERATIONAL.
C9_ScaledOperationalAppended ==
  [][(pc = "assign") =>
       LET q1 == IF fired'.cross THEN CrossTeamEscalation(work_items)
                 ELSE work_items
           q2 == IF fired'.onboard THEN Append(q1, ONBOARDING) ELSE q1
           delta == RoundGrowth(operational_work) + onboardings'
                      - operational_work
           n == IF operational_work >= SRE_TEAM_MAX_OPERATIONAL THEN 0
                ELSE IF delta > 0 THEN delta ELSE 0
       IN /\ Len(work_items') = Len(q2) + n
          /\ SubSeq(work_items', 1, Len(q2)) = q2
          /\ \A i \in (Len(q2) + 1)..Len(work_items') :
               work_items'[i] = OPERATIONAL]_vars

\* C9 witness: admission has run with operational_work at
\* SRE_TEAM_MAX_OPERATIONAL and three onboardings done, and has appended no
\* OPERATIONAL token behind the escalation's CROSS_TEAM_PROJECT.
C9_NoneAppendedAtCap ==
  /\ pc = "process"
  /\ operational_work = SRE_TEAM_MAX_OPERATIONAL
  /\ onboardings = 3
  /\ fired.cross
  /\ ~fired.onboard
  /\ Len(work_items) >= 1
  /\ Last(work_items) = CROSS_TEAM_PROJECT

\* C10: the second tick, run on the queue the bootstrap left, with no
\* escalation, no onboarding and no carryover, tallies exactly 4 OPERATIONAL,
\* 4 IN_TEAM_PROJECT and 2 CROSS_TEAM_PROJECT (SRE_TEAM_CAPACITY in all) and
\* leaves exactly the 4 IN_TEAM_PROJECT tokens in the queue.
C10_QuietSecondTick ==
  (/\ pc = "tick" /\ ticks = 2 /\ steady = 1
   /\ ~fired.cross /\ ~fired.onboard /\ fired.carry = 0) =>
    /\ tracking = (OPERATIONAL :> 4 @@ IN_TEAM_PROJECT :> 4
                     @@ CROSS_TEAM_PROJECT :> 2 @@ ONBOARDING :> 0)
    /\ capacity = SRE_TEAM_CAPACITY
    /\ fired.dropped = 0
    /\ work_items = << IN_TEAM_PROJECT, IN_TEAM_PROJECT,
                       IN_TEAM_PROJECT, IN_TEAM_PROJECT >>

\* C10 witness: the quiet second tick has ended, under the shipped limit.
C10_QuietSecondTickEnded ==
  /\ pc = "tick" /\ ticks = 2 /\ steady = 1
  /\ onboardings_limit = SRE_TEAM_ONBOARDINGS_LIMIT
  /\ ~fired.cross /\ ~fired.onboard /\ fired.carry = 0
  /\ tracking[CROSS_TEAM_PROJECT] = 2

\* What a run of horizon 1 leaves besides the series: the refilled queue and
\* every counter but ticks as constructed, no admission, no processing.
OnlyBootstrapRan ==
  /\ ticks = 1
  /\ work_items = SRE_WORK_DISTRIBUTION
  /\ onboarding_in_progress = FALSE
  /\ onboardings = 0
  /\ operational_work = SRE_BASELINE_OPERATIONAL
  /\ tracking = NoTracking
  /\ steady = 0
  /\ fired = NothingFired
  /\ capacity = 0 /\ op_counter = 0

\* C11 as claimed: with horizon 1, once the single tick has run, only the
\* bootstrap has acted and both series are empty.
C11_SeriesEmptyAfterHorizonOne ==
  (horizon = 1 /\ ticks = 1) =>
    /\ OnlyBootstrapRan
    /\ \A k \in SRE_WORK_TYPES :
         assigned_history_dict[k] = << >> /\ performed_history_dict[k] = << >>

\* C11 amended: with horizon 1 the single tick is a bootstrap tick that
\* leaves both series empty; the census the module takes once the run has
\* returned then appends one entry to each: the refilled queue's 4, 4, 2, 0
\* as assigned, 0 for every work type as performed.
C11_HorizonOne ==
  (horizon = 1 /\ ticks = 1) =>
    /\ OnlyBootstrapRan
    /\ pc = "tick" =>
         \A k \in SRE_WORK_TYPES :
           assigned_history_dict[k] = << >>
           /\ performed_history_dict[k] = << >>
    /\ pc = "done" =>
         \A k \in SRE_WORK_TYPES :
           /\ assigned_history_dict[k] = << CountOf(SRE_WORK_DISTRIBUTION, k) >>
           /\ performed_history_dict[k] = << 0 >>

\* C11 witness: the run of horizon 1 is over, final census taken.
C11_HorizonOneDone ==
  /\ horizon = 1
  /\ pc = "done"
  /\ Len(assigned_history_dict[OPERATIONAL]) = 1
  /\ assigned_history_dict[OPERATIONAL][1] = 4

\* C13: with the onboarding limit configured as 0 the queue never holds an
\* ONBOARDING token, no admission ever fires, and onboardings stays 0 and
\* onboarding_in_progress stays FALSE.
C13_LimitZeroNeverOnboards ==
  onboardings_limit = 0 =>
    /\ CountOf(work_items, ONBOARDING) = 0
    /\ onboardings = 0
    /\ onboarding_in_progress = FALSE
    /\ fired.onboard = FALSE
    /\ \A i \in DOMAIN assigned_history_dict[ONBOARDING] :
         assigned_history_dict[ONBOARDING][i] = 0

\* C13 witness: admission has run on three steady ticks under limit 0.
C13_LimitZeroThreeAdmissions ==
  /\ onboardings_limit = 0
  /\ pc = "process"
  /\ steady >= 3
  /\ onboardings = 0

\* The state as __init__ leaves it.
AsConstructed ==
  /\ ticks = 0
  /\ work_items = << >>
  /\ onboardings = 0
  /\ onboarding_in_progress = FALSE
  /\ operational_work = SRE_BASELINE_OPERATIONAL
  /\ \A k \in SRE_WORK_TYPES :
       assigned_history_dict[k] = << >> /\ performed_history_dict[k] = << >>

\* C14 as claimed: under a non-positive onboarding limit no tick runs and
\* no state is mutated.
C14_InvalidLimitNeverRuns ==
  onboardings_limit <= 0 => (AsConstructed /\ pc = "tick")

\* C14 amended: a non-positive onboarding limit is not rejected; between
\* ticks the run under it can always take its next step (bootstrap, steady
\* tick or final census), it leaves the constructed state behind, and it
\* ends with ticks at the horizon and a queue that was refilled.
C14_InvalidLimitRuns ==
  onboardings_limit <= 0 =>
    /\ pc = "tick" => ENABLED (Bootstrap \/ Census \/ FinalCensus)
    /\ pc = "done" => (ticks = horizon /\ ~AsConstructed)

\* C14 witness: a run under limit 0 has completed several ticks.
C14_LimitZeroRunCompleted ==
  /\ onboardings_limit = 0
  /\ pc = "done"
  /\ ticks >= 3
  /\ Len(performed_history_dict[OPERATIONAL]) >= 3

\* Positions of the n earliest tokens of type k in seq.
EarliestOf(seq, k, n) ==
  { i \in 1..Len(seq) :
      seq[i] = k /\ Cardinality({ j \in 1..(i - 1) : seq[j] = k }) < n }

RECURSIVE Without(_, _, _)
\* seq from position i on, skipping the positions in R, order kept.
Without(seq, R, i) ==
  IF i > Len(seq) THEN << >>
  ELSE (IF i \in R THEN << >> ELSE << seq[i] >>) \o Without(seq, R, i + 1)

\* C15: when the cross-team escalation fires in assign_work, the queue loses
\* its two earliest OPERATIONAL tokens (as many as exist) and its earliest
\* IN_TEAM_PROJECT token (if any), the remaining tokens keep their order,
\* exactly one CROSS_TEAM_PROJECT token follows them, and what comes after
\* is only what the rest of admission appends; a missing token is a no-op.
C15_EscalationRemovals ==
  [][(pc = "assign" /\ fired'.cross) =>
       LET R    == EarliestOf(work_items, OPERATIONAL, 2)
                   \cup EarliestOf(work_items, IN_TEAM_PROJECT, 1)
           kept == Without(work_items, R, 1)
           n    == Len(kept)
       IN /\ Cardinality(R) <= 3
          /\ Len(work_items') >= n + 1
          /\ SubSeq(work_items', 1, n + 1) = kept \o << CROSS_TEAM_PROJECT >>
          /\ \A i \in (n + 2)..Len(work_items') :
               work_items'[i] \in {ONBOARDING, OPERATIONAL}
          /\ CountOf(work_items', CROSS_TEAM_PROJECT) =
               CountOf(work_items, CROSS_TEAM_PROJECT) + 1
          /\ CountOf(work_items', IN_TEAM_PROJECT) =
               CountOf(work_items, IN_TEAM_PROJECT)
               - Cardinality(EarliestOf(work_items, IN_TEAM_PROJECT, 1))
     ]_vars

\* C15 witness: an escalation has fired on a queue that held no OPERATIONAL
\* token, so both OPERATIONAL removals were no-ops.
C15_EscalationWithoutOperational ==
  /\ pc = "process"
  /\ fired.cross
  /\ CountOf(work_items, OPERATIONAL) = 0
  /\ CountOf(work_items, IN_TEAM_PROJECT) = 2
  /\ work_items[Len(work_items)] = CROSS_TEAM_PROJECT

\* C16: when the processing loop of a tick has ended, the capacity consumed
\* is at most the per-tick capacity limit, whatever the queue held.
C16_CapacityWithinLimit ==
  pc \in {"tick", "done"} => capacity <= SRE_TEAM_CAPACITY

\* C17: the processing loop terminates for every queue content and every
\* outcome of the carryover draws, and it ends only with the capacity
\* counter at the limit or with the queue exhausted; the empty queue ends
\* the loop as an ordinary step.
C17_LoopTerminates ==
  /\ (pc \in {"process", "loop"}) ~> (pc = "tick")
  /\ [][(pc = "loop" /\ pc' = "tick") =>
          /\ capacity >= SRE_TEAM_CAPACITY \/ work_items = << >>
          /\ work_items' = work_items /\ capacity' = capacity
       ]_vars
  /\ [](pc = "loop" => ENABLED NextProcess)

\* C17 witness: the loop ended on an exhausted queue, below capacity, after
\* dropping an over-threshold OPERATIONAL item.
C17_EndedOnEmptyQueue ==
  /\ pc = "tick"
  /\ work_items = << >>
  /\ capacity < SRE_TEAM_CAPACITY
  /\ fired.dropped >= 1

\* C18: an OPERATIONAL item popped once the operational counter has reached
\* half of capacity is dropped: the queue is left as its tail (one item
\* shorter, one OPERATIONAL fewer, nothing requeued), and the capacity
\* counter, the operational counter and the performed tally do not change.
C18_OverCapOperationalDropped ==
  [][(/\ pc = "loop" /\ pc' = "loop"
      /\ work_items # << >>
      /\ Head(work_items) = OPERATIONAL
      /\ 2 * op_counter >= SRE_TEAM_CAPACITY) =>
       /\ work_items' = Tail(work_items)
       /\ CountOf(work_items', OPERATIONAL) =
            CountOf(work_items, OPERATIONAL) - 1
       /\ capacity' = capacity
       /\ op_counter' = op_counter
       /\ tracking' = tracking
       /\ onboarding_in_progress' = onboarding_in_progress
     ]_vars

\* C18 witness: five OPERATIONAL items were performed and a sixth dropped.
C18_SixthOperationalDropped ==
  /\ pc = "loop"
  /\ fired.dropped = 1
  /\ op_counter = 5
  /\ capacity = 5
  /\ tracking[OPERATIONAL] = 5

\* C19: processing an ONBOARDING item removes it, appends one
\* IN_TEAM_PROJECT then one OPERATIONAL item at the tail, clears
\* onboarding_in_progress, adds 2 to the capacity counter and 1 to the
\* CROSS_TEAM_PROJECT tally; so every entry of the performed series for
\* ONBOARDING is 0.
C19_OnboardingProcessed ==
  /\ [][(/\ pc = "loop" /\ pc' = "loop"
          /\ work_items # << >>
          /\ Head(work_items) = ONBOARDING) =>
           /\ work_items' =
                Tail(work_items) \o << IN_TEAM_PROJECT, OPERATIONAL >>
           /\ onboarding_in_progress /\ ~onboarding_in_progress'
           /\ capacity' = capacity + 2
           /\ op_counter' = op_counter
           /\ tracking'[CROSS_TEAM_PROJECT] = tracking[CROSS_TEAM_PROJECT] + 1
           /\ \A k \in SRE_WORK_TYPES \ {CROSS_TEAM_PROJECT} :
                tracking'[k] = tracking[k]
       ]_vars
  /\ [](/\ tracking[ONBOARDING] = 0
         /\ \A i \in DOMAIN performed_history_dict[ONBOARDING] :
              performed_history_dict[ONBOARDING][i] = 0)

\* C19 witness: an onboarding was processed in the previous tick and the
\* census that followed recorded 0 performed ONBOARDING work.
C19_OnboardingPerformedAsZero ==
  /\ pc = "assign"
  /\ steady >= 2
  /\ onboardings >= 1
  /\ onboarding_in_progress = FALSE
  /\ LastPerformed[ONBOARDING] = 0
  /\ LastPerformed[CROSS_TEAM_PROJECT] >= 1

\* C20: processing never removes an IN_TEAM_PROJECT item: each step of
\* process_work leaves their number unchanged, except that processing an
\* ONBOARDING item adds one, so a queue holding one before processing is
\* non-empty after it; their number only ever goes down in assign_work when
\* the cross-team escalation fires, and then by exactly one.
C20_InTeamProjectsStay ==
  [][LET before == CountOf(work_items, IN_TEAM_PROJECT)
         after  == CountOf(work_items', IN_TEAM_PROJECT)
         popped_onboarding ==
           /\ pc = "loop" /\ pc' = "loop"
           /\ work_items # << >>
           /\ Head(work_items) = ONBOARDING
     IN /\ pc \in {"process", "loop"} =>
             /\ after = before + (IF popped_onboarding THEN 1 ELSE 0)
             /\ before > 0 => work_items' # << >>
        /\ after < before =>
             (pc = "assign" /\ fired'.cross /\ after = before - 1)
    ]_vars

\* C20 witness: processing has ended with five IN_TEAM_PROJECT items queued,
\* the four of the refill and the one an onboarding spawned.
C20_FiveInTeamProjects ==
  /\ pc = "tick"
  /\ onboardings = 1
  /\ onboarding_in_progress = FALSE
  /\ CountOf(work_items, IN_TEAM_PROJECT) = 5
====
